---- MODULE Spec2Model ----
(***************************************************************************)
(* Model of src/network-agents.py: main(config) and the three generators   *)
(* generate_random_graph, generate_preferential_attachment_graph and       *)
(* generate_homophily_graph, in static and dynamic mode.                   *)
(*                                                                         *)
(* Real numbers are fixed-point numbers with denominator RandLevels:       *)
(* random.random() returns k/RandLevels with k in 0..RandLevels-1 (the     *)
(* half-open interval [0,1), 0.0 included), a probability is k/RandLevels  *)
(* with k in 0..RandLevels, and a weight w is stored as w*RandLevels, so   *)
(* the integer weight 1 of the dynamic modes is stored as One.             *)
(***************************************************************************)
EXTENDS Integers, FiniteSets, Sequences, TLC

\* ---- bounds of the model ------------------------------------------------
\* MaxAgents bounds num_agents for the random and homophily strategies, MaxPAAgents
\* for preferential attachment.
MaxAgents == 2
MaxPAAgents == 3
MaxSteps == 2
MaxM == 2
MaxGroups == 2
RandLevels == 2

One == RandLevels
Draws == 0 .. (RandLevels - 1)
Probs == 0 .. RandLevels

\* ---- configuration --------------------------------------------------------
KnownStrategies == {"random", "preferential_attachment", "preferential", "homophily"}
Strategies == KnownStrategies \cup {"small_world"}

\* Parameters the selected generator and mode never read stay at one placeholder
\* value; time_steps is read by the dynamic modes only (and is a parameter of every
\* generator).
ConfigsIn(s, d) ==
  { [num_agents |-> n, linking_strategy |-> s, time_steps |-> ts, dynamic |-> d,
     edge_weights |-> ew, p |-> p, edges_per_step |-> m,
     homophily_groups |-> hg, p_in |-> pin, p_out |-> pout] :
       n \in -1 .. (IF s \in {"preferential_attachment", "preferential"}
                       THEN MaxPAAgents ELSE MaxAgents),
       ew \in BOOLEAN,
       ts \in (IF d THEN 0 .. MaxSteps ELSE {1}),
       p \in (IF s = "random" THEN Probs ELSE {0}),
       m \in (IF s \in {"preferential_attachment", "preferential"} THEN 0 .. MaxM ELSE {1}),
       hg \in (IF s = "homophily" THEN 1 .. MaxGroups ELSE {2}),
       pin \in (IF s = "homophily" THEN Probs ELSE {0}),
       pout \in (IF s = "homophily" THEN Probs ELSE {0}) }

\* with a single group every pair is a same-group pair and p_out is never read
ConfigsOf(s) ==
  { c \in ConfigsIn(s, TRUE) \cup ConfigsIn(s, FALSE) :
      c.homophily_groups = 1 => c.p_out = 0 }

Configs == UNION { ConfigsOf(s) : s \in Strategies }

VARIABLES
  config,       \* the configuration mapping handed to main
  pc,           \* control position of main and of the running generator
  err,          \* exception propagated out of main, "none" if none
  written,      \* TRUE once the output file has been written
  G_nodes,      \* node set of G
  G_adj,        \* edges of G: DOMAIN G_adj is the edge set, G_adj[e] the weight attribute
  groups,       \* homophily: the node -> group map
  t,            \* loop variable of the time-step / arrival loop
  i,            \* loop variable of the node loop (outer loop of the static pass)
  j,            \* inner loop variable of the static pass
  edges_added,  \* per-step counter of newly created edges
  targets,      \* preferential attachment: targets chosen for the arriving node
  degrees,      \* preferential attachment: degree snapshot taken at arrival
  total_degree, \* preferential attachment: sum of the snapshot
  BA,           \* static preferential attachment: undirected base edges still to convert
  BA_graph,     \* static preferential attachment: the undirected base graph's edges
  steps,        \* number of "Step ..." lines printed so far
  reported,     \* the counts printed in those lines, in order
  last          \* what the last executed loop body did

vars == << config, pc, err, written, G_nodes, G_adj, groups, t, i, j, edges_added,
           targets, degrees, total_degree, BA, BA_graph, steps, reported, last >>

\* ---- weight attributes ------------------------------------------------------
NoAttr == [kind |-> "absent", val |-> 0]
NoneAttr == [kind |-> "None", val |-> 0]
Num(v) == [kind |-> "num", val |-> v]

\* weight=(v if edge_weights else None)
WeightOrNone(ew, v) == IF ew THEN Num(v) ELSE NoneAttr

\* ---- GraphModel (networkx.DiGraph) --------------------------------------------
range(n) == 0 .. (n - 1)
range2(a, b) == a .. (b - 1)

has_edge(adj, u, v) == <<u, v>> \in DOMAIN adj

add_edge(adj, u, v, a) ==
  [e \in DOMAIN adj \cup {<<u, v>>} |->
     IF e = <<u, v>>
       THEN (IF a = NoAttr /\ e \in DOMAIN adj THEN adj[e] ELSE a)
       ELSE adj[e]]

add_edges(adj, es, a) ==
  [e \in DOMAIN adj \cup es |->
     IF e \in es
       THEN (IF a = NoAttr /\ e \in DOMAIN adj THEN adj[e] ELSE a)
       ELSE adj[e]]

increment_weight_double(adj, u, v) ==
  [adj EXCEPT ![<<u, v>>] = IF @.kind = "num" THEN Num(@.val + 2 * One) ELSE @]

increment_weight_reset(adj, u, v) ==
  [adj EXCEPT ![<<u, v>>] = Num(One)]

\* G[i][j]['weight'] += 1
increment_weight(adj, u, v) ==
  [adj EXCEPT ![<<u, v>>] = IF @.kind = "num" THEN Num(@.val + One) ELSE @]

\* G.degree(): in-degree plus out-degree
degree(adj, v) ==
  Cardinality({e \in DOMAIN adj : e[1] = v}) + Cardinality({e \in DOMAIN adj : e[2] = v})

EmptyAdj == [e \in {} |-> NoAttr]
NoLast == [kind |-> "none", es |-> {}]
Event(k, es) == [kind |-> k, es |-> es]

\* ---- initial state ------------------------------------------------------------
Init ==
  /\ config \in Configs
  /\ pc = "main"
  /\ err = "none"
  /\ written = FALSE
  /\ G_nodes = {}
  /\ G_adj = EmptyAdj
  /\ groups = [n \in {} |-> 0]
  /\ t = 0
  /\ i = 0
  /\ j = 0
  /\ edges_added = 0
  /\ targets = {}
  /\ degrees = [n \in {} |-> 0]
  /\ total_degree = 0
  /\ BA = {}
  /\ BA_graph = {}
  /\ steps = 0
  /\ reported = << >>
  /\ last = NoLast

\* ---- main -----------------------------------------------------------------------
num_nodes == config.num_agents
dynamic == config.dynamic
edge_weights == config.edge_weights
time_steps == config.time_steps

GeneratorOf_default(strategy) ==
  IF strategy \in {"preferential_attachment", "preferential"} THEN "preferential"
  ELSE IF strategy = "homophily" THEN "homophily"
  ELSE "random"

\* lines 147-159: the if/elif chain over the strategy name
GeneratorOf(strategy) ==
  IF strategy = "random" THEN "random"
  ELSE IF strategy \in {"preferential_attachment", "preferential"} THEN "preferential"
  ELSE IF strategy = "homophily" THEN "homophily"
  ELSE "raise"

\* main, lines 147-159: select the generator by strategy name, or raise ValueError
main_dispatch ==
  /\ pc = "main"
  /\ LET g == GeneratorOf(config.linking_strategy) IN
       IF g = "raise"
         THEN /\ pc' = "error"
              /\ err' = "ValueError"
         ELSE /\ pc' = g
              /\ err' = err
  /\ UNCHANGED << config, written, G_nodes, G_adj, groups, t, i, j, edges_added,
                  targets, degrees, total_degree, BA, BA_graph, steps, reported, last >>

\* main, lines 161-176: write the finished graph to the output file
main_save ==
  /\ pc = "save"
  /\ written' = TRUE
  /\ pc' = "done"
  /\ UNCHANGED << config, err, G_nodes, G_adj, groups, t, i, j, edges_added,
                  targets, degrees, total_degree, BA, BA_graph, steps, reported, last >>

\* ---- generate_random_graph ---------------------------------------------------------
\* lines 16, 34, 103, 127: the test "j == i" that makes the loops skip a self-loop
is_self_never(a, b) == FALSE

is_self(a, b) == a = b

\* position of the static double loop after the pair (a, b)
NextPair(a, b) == IF b + 1 < num_nodes THEN << a, b + 1 >> ELSE << a + 1, 0 >>

\* lines 7-9: G = DiGraph(); add_nodes_from(range(num_nodes)); branch on dynamic
random_enter ==
  /\ pc = "random"
  /\ G_nodes' = range(num_nodes)
  /\ pc' = IF dynamic THEN "random_dynamic" ELSE "random_static"
  /\ t' = 1
  /\ i' = 0
  /\ j' = 0
  /\ edges_added' = 0
  /\ UNCHANGED << config, err, written, G_adj, groups, targets, degrees,
                  total_degree, BA, BA_graph, steps, reported, last >>

random_dynamic_body_countall(r, x) ==
  /\ pc = "random_dynamic"
  /\ t <= time_steps
  /\ i < num_nodes
  /\ IF r < config.p
       THEN IF is_self(x, i)
              THEN /\ last' = Event("skip", {})
                   /\ UNCHANGED << G_adj, edges_added >>
              ELSE IF has_edge(G_adj, i, x)
                     THEN /\ G_adj' = IF edge_weights
                                        THEN increment_weight(G_adj, i, x)
                                        ELSE G_adj
                          /\ last' = Event("reselect", {<<i, x>>})
                          /\ edges_added' = edges_added + 1
                     ELSE /\ G_adj' = add_edge(G_adj, i, x,
                                               IF edge_weights THEN Num(One) ELSE NoAttr)
                          /\ edges_added' = edges_added + 1
                          /\ last' = Event("create", {<<i, x>>})
       ELSE /\ last' = Event("fail", {})
            /\ UNCHANGED << G_adj, edges_added >>
  /\ i' = i + 1
  /\ UNCHANGED << config, pc, err, written, G_nodes, groups, t, j, targets, degrees,
                  total_degree, BA, BA_graph, steps, reported >>

\* lines 13-28: one iteration of the node loop of a dynamic step, with the draws
\* r = random.random() and x = random.randrange(num_nodes)
random_dynamic_body(r, x) ==
  /\ pc = "random_dynamic"
  /\ t <= time_steps
  /\ i < num_nodes
  /\ IF r < config.p
       THEN IF is_self(x, i)
              THEN /\ last' = Event("skip", {})
                   /\ UNCHANGED << G_adj, edges_added >>
              ELSE IF has_edge(G_adj, i, x)
                     THEN /\ G_adj' = IF edge_weights
                                        THEN increment_weight(G_adj, i, x)
                                        ELSE G_adj
                          /\ last' = Event("reselect", {<<i, x>>})
                          /\ UNCHANGED edges_added
                     ELSE /\ G_adj' = add_edge(G_adj, i, x,
                                               IF edge_weights THEN Num(One) ELSE NoAttr)
                          /\ edges_added' = edges_added + 1
                          /\ last' = Event("create", {<<i, x>>})
       ELSE /\ last' = Event("fail", {})
            /\ UNCHANGED << G_adj, edges_added >>
  /\ i' = i + 1
  /\ UNCHANGED << config, pc, err, written, G_nodes, groups, t, j, targets, degrees,
                  total_degree, BA, BA_graph, steps, reported >>

random_dynamic_iter ==
  \E r \in Draws, x \in range(num_nodes) : random_dynamic_body(r, x)

\* line 29: end of a dynamic step, print the step's count
random_dynamic_print ==
  /\ pc = "random_dynamic"
  /\ t <= time_steps
  /\ i >= num_nodes
  /\ steps' = steps + 1
  /\ reported' = Append(reported, edges_added)
  /\ t' = t + 1
  /\ i' = 0
  /\ edges_added' = 0
  /\ last' = NoLast
  /\ UNCHANGED << config, pc, err, written, G_nodes, G_adj, groups, j, targets,
                  degrees, total_degree, BA, BA_graph >>

\* lines 11, 42: the step loop is exhausted, return G
random_dynamic_return ==
  /\ pc = "random_dynamic"
  /\ t > time_steps
  /\ pc' = "save"
  /\ last' = NoLast
  /\ UNCHANGED << config, err, written, G_nodes, G_adj, groups, t, i, j, edges_added,
                  targets, degrees, total_degree, BA, BA_graph, steps, reported >>

\* lines 32-40: one ordered pair (i, j) of the static pass, with the draws
\* r = random.random() for the trial and w = random.random() for the weight
random_static_body(r, w) ==
  /\ pc = "random_static"
  /\ i < num_nodes
  /\ IF is_self(i, j)
       THEN /\ last' = Event("skip", {})
            /\ UNCHANGED G_adj
       ELSE IF r < config.p
              THEN /\ G_adj' = add_edge(G_adj, i, j,
                                        IF edge_weights THEN Num(w) ELSE NoAttr)
                   /\ last' = Event("create", {<<i, j>>})
              ELSE /\ last' = Event("fail", {})
                   /\ UNCHANGED G_adj
  /\ i' = NextPair(i, j)[1]
  /\ j' = NextPair(i, j)[2]
  /\ UNCHANGED << config, pc, err, written, G_nodes, groups, t, edges_added, targets,
                  degrees, total_degree, BA, BA_graph, steps, reported >>

random_static_pair ==
  \E r \in Draws, w \in Draws : random_static_body(r, w)

\* lines 41-42: the static pass is over, return G
random_static_return ==
  /\ pc = "random_static"
  /\ i >= num_nodes
  /\ pc' = "save"
  /\ last' = NoLast
  /\ UNCHANGED << config, err, written, G_nodes, G_adj, groups, t, i, j, edges_added,
                  targets, degrees, total_degree, BA, BA_graph, steps, reported >>

generate_random_graph ==
  \/ random_enter
  \/ random_dynamic_iter
  \/ random_dynamic_print
  \/ random_dynamic_return
  \/ random_static_pair
  \/ random_static_return

\* ---- generate_preferential_attachment_graph ---------------------------------------
edges_per_step == config.edges_per_step
initial_nodes == edges_per_step + 1

RECURSIVE SumOver(_, _)
SumOver(f, S) ==
  IF S = {} THEN 0
  ELSE LET x == CHOOSE y \in S : TRUE IN f[x] + SumOver(f, S \ {x})

ScanBreak_nobreak(deg, r) ==
  { n \in DOMAIN deg : SumOver(deg, {k \in DOMAIN deg : k <= n}) >= r }

ScanBreak_strict(deg, r) ==
  { n \in DOMAIN deg :
      /\ SumOver(deg, {k \in DOMAIN deg : k <= n}) > r
      /\ \A n2 \in DOMAIN deg :
           n2 < n => SumOver(deg, {k \in DOMAIN deg : k <= n2}) <= r }

\* lines 65-71: the cumulative scan over degrees.items() (insertion order 0, 1, ..),
\* the set holding the node at which the scan breaks, empty if it never breaks
ScanBreak(deg, r) ==
  { n \in DOMAIN deg :
      /\ SumOver(deg, {k \in DOMAIN deg : k <= n}) >= r
      /\ \A n2 \in DOMAIN deg :
           n2 < n => SumOver(deg, {k \in DOMAIN deg : k <= n2}) < r }

pa_seed_oneway ==
  /\ pc = "preferential"
  /\ dynamic
  /\ G_nodes' = range(initial_nodes)
  /\ G_adj' = add_edges(G_adj,
                        { << u, v >> \in range(initial_nodes) \X range(initial_nodes) : u < v },
                        WeightOrNone(edge_weights, One))
  /\ last' = Event("create",
                    { << u, v >> \in range(initial_nodes) \X range(initial_nodes) : u < v })
  /\ t' = initial_nodes
  /\ pc' = "pa_arrivals"
  /\ UNCHANGED << config, err, written, groups, i, j, edges_added, targets, degrees,
                  total_degree, BA, BA_graph, steps, reported >>

\* lines 46-54: dynamic mode, the fully connected core among the first m+1 nodes
pa_seed ==
  /\ pc = "preferential"
  /\ dynamic
  /\ G_nodes' = range(initial_nodes)
  /\ G_adj' = add_edges(G_adj,
                        { << u, v >> \in range(initial_nodes) \X range(initial_nodes) : u # v },
                        WeightOrNone(edge_weights, One))
  /\ last' = Event("create",
                    { << u, v >> \in range(initial_nodes) \X range(initial_nodes) : u # v })
  /\ t' = initial_nodes
  /\ pc' = "pa_arrivals"
  /\ UNCHANGED << config, err, written, groups, i, j, edges_added, targets, degrees,
                  total_degree, BA, BA_graph, steps, reported >>

\* lines 56-61: node t arrives; snapshot of the degrees
pa_arrive ==
  /\ pc = "pa_arrivals"
  /\ t < num_nodes
  /\ G_nodes' = G_nodes \cup {t}
  /\ targets' = {}
  /\ degrees' = [n \in G_nodes \cup {t} |-> degree(G_adj, n)]
  /\ total_degree' = SumOver([n \in G_nodes \cup {t} |-> degree(G_adj, n)], G_nodes \cup {t})
  /\ pc' = "pa_select"
  /\ last' = NoLast
  /\ UNCHANGED << config, err, written, G_adj, groups, t, i, j, edges_added, BA, BA_graph,
                  steps, reported >>

pa_draw_body_inverted(r) ==
  /\ pc = "pa_select"
  /\ Cardinality(targets) < edges_per_step
  /\ LET hit == ScanBreak(degrees, r) IN
       targets' = targets \cup { n \in hit : n = t }
  /\ UNCHANGED << config, pc, err, written, G_nodes, G_adj, groups, t, i, j,
                  edges_added, degrees, total_degree, BA, BA_graph, steps, reported, last >>

\* lines 63-71: one pass of the selection loop with the draw
\* r = random.uniform(0, total_degree); the scan compares r with integer sums, so
\* a real r acts as the least integer not below it
pa_draw_body(r) ==
  /\ pc = "pa_select"
  /\ Cardinality(targets) < edges_per_step
  /\ LET hit == ScanBreak(degrees, r) IN
       targets' = targets \cup { n \in hit : n # t }
  /\ UNCHANGED << config, pc, err, written, G_nodes, G_adj, groups, t, i, j,
                  edges_added, degrees, total_degree, BA, BA_graph, steps, reported, last >>

pa_draw ==
  \E r \in 0 .. total_degree : pa_draw_body(r)

\* lines 64-71: a pass of the selection loop whose draw makes the scan break at node n
pa_draw_node(n) ==
  \E r \in 0 .. total_degree :
     /\ ScanBreak(degrees, r) = {n}
     /\ pa_draw_body(r)

\* lines 73-78: link t to the chosen targets and print the step
pa_link ==
  /\ pc = "pa_select"
  /\ Cardinality(targets) >= edges_per_step
  /\ G_adj' = add_edges(G_adj, { << t, target >> : target \in targets },
                        IF edge_weights THEN Num(One) ELSE NoAttr)
  /\ last' = Event("create", { << t, target >> : target \in targets })
  /\ steps' = steps + 1
  /\ reported' = Append(reported, Cardinality(targets))
  /\ t' = t + 1
  /\ pc' = "pa_arrivals"
  /\ UNCHANGED << config, err, written, G_nodes, groups, i, j, edges_added, targets,
                  degrees, total_degree, BA, BA_graph >>

\* lines 56, 88: no node left to arrive, return G
pa_dynamic_return ==
  /\ pc = "pa_arrivals"
  /\ t >= num_nodes
  /\ pc' = "save"
  /\ last' = NoLast
  /\ UNCHANGED << config, err, written, G_nodes, G_adj, groups, t, i, j, edges_added,
                  targets, degrees, total_degree, BA, BA_graph, steps, reported >>

\* networkx.barabasi_albert_graph(n, m): a star on nodes 0..m, then every node
\* source = m+1 .. n-1 is joined to m distinct earlier nodes; an undirected edge is
\* the pair << u, v >> with u < v
RECURSIVE BAGrow(_, _, _, _)
BAGrow(es, source, n, m) ==
  IF source >= n THEN {es}
  ELSE UNION { BAGrow(es \cup { << x, source >> : x \in T }, source + 1, n, m) :
                 T \in { S \in SUBSET range(source) : Cardinality(S) = m } }

barabasi_albert_graph(n, m) ==
  BAGrow({ << 0, k >> : k \in 1 .. m }, m + 1, n, m)

\* line 81: networkx raises NetworkXError unless 1 <= m < n
pa_static_raise ==
  /\ pc = "preferential"
  /\ ~dynamic
  /\ (edges_per_step < 1 \/ edges_per_step >= num_nodes)
  /\ pc' = "error"
  /\ err' = "NetworkXError"
  /\ UNCHANGED << config, written, G_nodes, G_adj, groups, t, i, j, edges_added,
                  targets, degrees, total_degree, BA, BA_graph, steps, reported, last >>

\* lines 81-82: build the undirected base graph and copy its nodes
pa_static_base ==
  /\ pc = "preferential"
  /\ ~dynamic
  /\ edges_per_step >= 1
  /\ edges_per_step < num_nodes
  /\ BA' \in barabasi_albert_graph(num_nodes, edges_per_step)
  /\ BA_graph' = BA'
  /\ G_nodes' = range(num_nodes)
  /\ pc' = "pa_static"
  /\ UNCHANGED << config, err, written, G_adj, groups, t, i, j, edges_added, targets,
                  degrees, total_degree, steps, reported, last >>

FirstEdge(es) ==
  CHOOSE e \in es : \A f \in es : e[1] < f[1] \/ (e[1] = f[1] /\ e[2] <= f[2])

pa_static_body_oneway(w1, w2) ==
  /\ pc = "pa_static"
  /\ BA # {}
  /\ LET e == FirstEdge(BA)
         u == e[1]
         v == e[2]
     IN /\ G_adj' = add_edge(G_adj, u, v, WeightOrNone(edge_weights, w1))
        /\ last' = Event("create", { << u, v >> })
        /\ BA' = BA \ {e}
  /\ UNCHANGED << config, pc, err, written, G_nodes, groups, t, i, j, edges_added,
                  targets, degrees, total_degree, BA_graph, steps, reported >>

\* lines 83-86: one undirected edge (u, v) becomes the two directed edges, with the
\* draws w1, w2 = random.random() for their weights
pa_static_body(w1, w2) ==
  /\ pc = "pa_static"
  /\ BA # {}
  /\ LET e == FirstEdge(BA)
         u == e[1]
         v == e[2]
     IN /\ G_adj' = add_edge(add_edge(G_adj, u, v, WeightOrNone(edge_weights, w1)),
                             v, u, WeightOrNone(edge_weights, w2))
        /\ last' = Event("create", { << u, v >>, << v, u >> })
        /\ BA' = BA \ {e}
  /\ UNCHANGED << config, pc, err, written, G_nodes, groups, t, i, j, edges_added,
                  targets, degrees, total_degree, BA_graph, steps, reported >>

pa_static_edge ==
  \E w1 \in Draws, w2 \in Draws : pa_static_body(w1, w2)

\* lines 87-88: every base edge is converted, return G
pa_static_return ==
  /\ pc = "pa_static"
  /\ BA = {}
  /\ pc' = "save"
  /\ last' = NoLast
  /\ UNCHANGED << config, err, written, G_nodes, G_adj, groups, t, i, j, edges_added,
                  targets, degrees, total_degree, BA, BA_graph, steps, reported >>

generate_preferential_attachment_graph ==
  \/ pa_seed
  \/ pa_arrive
  \/ pa_draw
  \/ pa_link
  \/ pa_dynamic_return
  \/ pa_static_raise
  \/ pa_static_base
  \/ pa_static_edge
  \/ pa_static_return

\* ---- generate_homophily_graph ----------------------------------------------------------
PairProb_swapped(a, b) == IF groups[a] = groups[b] THEN config.p_out ELSE config.p_in

\* lines 106, 114 / 129, 132: the probability that applies to the pair (a, b)
PairProb(a, b) == IF groups[a] = groups[b] THEN config.p_in ELSE config.p_out

\* lines 92-97: G = DiGraph(); nodes; the group map; branch on dynamic
homophily_enter ==
  /\ pc = "homophily"
  /\ G_nodes' = range(num_nodes)
  /\ groups' = [n \in range(num_nodes) |-> n % config.homophily_groups]
  /\ pc' = IF dynamic THEN "homophily_dynamic" ELSE "homophily_static"
  /\ t' = 1
  /\ i' = 0
  /\ j' = 0
  /\ edges_added' = 0
  /\ UNCHANGED << config, err, written, G_adj, targets, degrees, total_degree, BA, BA_graph,
                  steps, reported, last >>

homophily_dynamic_body_setweight(x, r) ==
  /\ pc = "homophily_dynamic"
  /\ t <= time_steps
  /\ i < num_nodes
  /\ IF is_self(x, i)
       THEN /\ last' = Event("skip", {})
            /\ UNCHANGED << G_adj, edges_added >>
       ELSE IF r < PairProb(i, x)
              THEN IF has_edge(G_adj, i, x)
                     THEN /\ G_adj' = add_edge(G_adj, i, x, Num(One))
                          /\ last' = Event("reselect", {<<i, x>>})
                          /\ UNCHANGED edges_added
                     ELSE /\ G_adj' = add_edge(G_adj, i, x, WeightOrNone(edge_weights, One))
                          /\ edges_added' = edges_added + 1
                          /\ last' = Event("create", {<<i, x>>})
              ELSE /\ last' = Event("fail", {})
                   /\ UNCHANGED << G_adj, edges_added >>
  /\ i' = i + 1
  /\ UNCHANGED << config, pc, err, written, G_nodes, groups, t, j, targets, degrees,
                  total_degree, BA, BA_graph, steps, reported >>

\* lines 101-121: one iteration of the node loop of a dynamic step, with the draws
\* x = random.randrange(num_nodes) and r = random.random()
homophily_dynamic_body(x, r) ==
  /\ pc = "homophily_dynamic"
  /\ t <= time_steps
  /\ i < num_nodes
  /\ IF is_self(x, i)
       THEN /\ last' = Event("skip", {})
            /\ UNCHANGED << G_adj, edges_added >>
       ELSE IF r < PairProb(i, x)
              THEN IF has_edge(G_adj, i, x)
                     THEN /\ G_adj' = IF edge_weights
                                        THEN increment_weight(G_adj, i, x)
                                        ELSE G_adj
                          /\ last' = Event("reselect", {<<i, x>>})
                          /\ UNCHANGED edges_added
                     ELSE /\ G_adj' = add_edge(G_adj, i, x, WeightOrNone(edge_weights, One))
                          /\ edges_added' = edges_added + 1
                          /\ last' = Event("create", {<<i, x>>})
              ELSE /\ last' = Event("fail", {})
                   /\ UNCHANGED << G_adj, edges_added >>
  /\ i' = i + 1
  /\ UNCHANGED << config, pc, err, written, G_nodes, groups, t, j, targets, degrees,
                  total_degree, BA, BA_graph, steps, reported >>

homophily_dynamic_iter ==
  \E x \in range(num_nodes), r \in Draws : homophily_dynamic_body(x, r)

\* line 122: end of a dynamic step, print the step's count
homophily_dynamic_print ==
  /\ pc = "homophily_dynamic"
  /\ t <= time_steps
  /\ i >= num_nodes
  /\ steps' = steps + 1
  /\ reported' = Append(reported, edges_added)
  /\ t' = t + 1
  /\ i' = 0
  /\ edges_added' = 0
  /\ last' = NoLast
  /\ UNCHANGED << config, pc, err, written, G_nodes, G_adj, groups, j, targets,
                  degrees, total_degree, BA, BA_graph >>

\* lines 99, 136: the step loop is exhausted, return G
homophily_dynamic_return ==
  /\ pc = "homophily_dynamic"
  /\ t > time_steps
  /\ pc' = "save"
  /\ last' = NoLast
  /\ UNCHANGED << config, err, written, G_nodes, G_adj, groups, t, i, j, edges_added,
                  targets, degrees, total_degree, BA, BA_graph, steps, reported >>

\* lines 125-134: one ordered pair (i, j) of the static pass, with the draws
\* r = random.random() for the trial and w = random.random() for the weight
homophily_static_body(r, w) ==
  /\ pc = "homophily_static"
  /\ i < num_nodes
  /\ IF is_self(i, j)
       THEN /\ last' = Event("skip", {})
            /\ UNCHANGED G_adj
       ELSE IF r < PairProb(i, j)
              THEN /\ G_adj' = add_edge(G_adj, i, j, WeightOrNone(edge_weights, w))
                   /\ last' = Event("create", {<<i, j>>})
              ELSE /\ last' = Event("fail", {})
                   /\ UNCHANGED G_adj
  /\ i' = NextPair(i, j)[1]
  /\ j' = NextPair(i, j)[2]
  /\ UNCHANGED << config, pc, err, written, G_nodes, groups, t, edges_added, targets,
                  degrees, total_degree, BA, BA_graph, steps, reported >>

homophily_static_pair ==
  \E r \in Draws, w \in Draws : homophily_static_body(r, w)

\* lines 135-136: the static pass is over, return G
homophily_static_return ==
  /\ pc = "homophily_static"
  /\ i >= num_nodes
  /\ pc' = "save"
  /\ last' = NoLast
  /\ UNCHANGED << config, err, written, G_nodes, G_adj, groups, t, i, j, edges_added,
                  targets, degrees, total_degree, BA, BA_graph, steps, reported >>

generate_homophily_graph ==
  \/ homophily_enter
  \/ homophily_dynamic_iter
  \/ homophily_dynamic_print
  \/ homophily_dynamic_return
  \/ homophily_static_pair
  \/ homophily_static_return

\* ---- the program -------------------------------------------------------------------------
Next ==
  \/ main_dispatch
  \/ generate_random_graph
  \/ generate_preferential_attachment_graph
  \/ generate_homophily_graph
  \/ main_save

Spec == Init /\ [][Next]_vars

\* ---- properties ------------------------------------------------------------------------------
strategy == config.linking_strategy
E == DOMAIN G_adj
Finished == pc \in {"save", "done"}
IsPA == strategy \in {"preferential_attachment", "preferential"}
group(n) == n % config.homophily_groups

\* C1: in every state of every strategy and mode no edge (i, i) exists.
C1_NoSelfLoop == \A e \in E : e[1] # e[2]

\* a dynamic random step drew its own node as target, was skipped, and edges exist
C1_Witness ==
  /\ strategy = "random"
  /\ dynamic
  /\ last.kind = "skip"
  /\ E # {}

\* C2: for num_agents >= 0, static generation and dynamic preferential attachment
\* finish with exactly num_agents nodes.
C2_NodeCount ==
  (Finished /\ num_nodes >= 0 /\ (~dynamic \/ IsPA)) => Cardinality(G_nodes) = num_nodes

\* C3: time_steps = 0 in dynamic mode, p = 0 in static random and p_in = p_out = 0 in
\* static homophily finish without error and with zero edges (stated for
\* num_agents >= 0).
C3_ZeroCase ==
  \/ /\ dynamic
     /\ time_steps = 0
  \/ /\ ~dynamic
     /\ strategy = "random"
     /\ config.p = 0
  \/ /\ ~dynamic
     /\ strategy = "homophily"
     /\ config.p_in = 0
     /\ config.p_out = 0

C3_ZeroEdges ==
  (C3_ZeroCase /\ strategy \in KnownStrategies /\ num_nodes >= 0) =>
     /\ pc # "error"
     /\ Finished => E = {}

\* C4: in dynamic weighted random and homophily generation no step lowers a weight,
\* a re-selection of an existing edge raises its weight by exactly 1, and a step
\* leaves the weight of every edge it does not select unchanged.
C4_Step ==
  (pc \in {"random_dynamic", "homophily_dynamic"} /\ edge_weights) =>
     \A e \in E :
        /\ e \in DOMAIN G_adj'
        /\ G_adj'[e].kind = "num"
        /\ G_adj'[e].val >= G_adj[e].val
        /\ IF last'.kind = "reselect" /\ e \in last'.es
             THEN G_adj'[e].val = G_adj[e].val + One
             ELSE G_adj'[e] = G_adj[e]

C4_WeightAccrual == [][C4_Step]_vars

\* an edge of a dynamic weighted random graph was just re-selected and weighs 2
C4_Witness ==
  /\ strategy = "random"
  /\ dynamic
  /\ edge_weights
  /\ last.kind = "reselect"
  /\ \E e \in last.es : G_adj[e] = Num(2 * One)

C7_UnknownStrategy ==
  strategy \notin KnownStrategies =>
     /\ pc \in {"main", "error"}
     /\ pc = "error" => err = "ValueError"
     /\ ~written
     /\ G_nodes = {}
     /\ E = {}

\* main has failed on an unknown strategy
C7_Witness ==
  /\ strategy \notin KnownStrategies
  /\ pc = "error"
  /\ err = "ValueError"

\* C8: a negative num_agents makes the core fail instead of returning a graph.
C8_FailClosed == num_nodes < 0 => ~Finished

\* C9: a weight attribute, when present, is a number > 0, and in dynamic modes it
\* is exactly 1 right after the edge is created (stated for num_agents >= 0).
C9_WeightPositive ==
  num_nodes >= 0 =>
     /\ \A e \in E :
          G_adj[e].kind # "absent" => (G_adj[e].kind = "num" /\ G_adj[e].val > 0)
     /\ (dynamic /\ last.kind = "create") =>
           \A e \in last.es : G_adj[e].kind # "absent" => G_adj[e] = Num(One)

\* C10: a finished dynamic run of any generator has performed and reported exactly
\* time_steps steps (stated for num_agents >= 0).
C10_StepCount ==
  (dynamic /\ Finished /\ num_nodes >= 0) =>
     (steps = time_steps /\ Len(reported) = time_steps)


RECURSIVE SumSeq(_)
SumSeq(s) == IF s = << >> THEN 0 ELSE s[1] + SumSeq(Tail(s))

InDynamicPass ==
  /\ dynamic
  /\ strategy \in {"random", "homophily"}
  /\ pc \in {"random_dynamic", "homophily_dynamic", "save", "done"}

\* C11: in dynamic random and homophily generation the counts printed so far plus
\* the running counter of the current step equal the number of edges, in every
\* state: so each printed count is the growth of the edge set over its step (a
\* re-selection, a draw j == i and a failed trial add nothing), and the printed
\* counts of a finished run sum to the final edge count.
C11_CountsNewEdges ==
  InDynamicPass =>
     /\ SumSeq(reported) + edges_added = Cardinality(E)
     /\ Finished => SumSeq(reported) = Cardinality(E)

\* a second step has been printed with count 0 after a re-selection, one edge exists
C11_Witness ==
  /\ InDynamicPass
  /\ edge_weights
  /\ reported = << 1, 0 >>
  /\ \E e \in E : G_adj[e] = Num(2 * One)


InPADynamic == IsPA /\ dynamic
out_edges(n) == { e \in E : e[1] = n }
in_edges(n) == { e \in E : e[2] = n }

C13_SeedClique ==
  (InPADynamic /\ pc = "pa_arrivals" /\ t = initial_nodes) =>
     /\ G_nodes = 0 .. edges_per_step
     /\ E = { e \in (0 .. edges_per_step) \X (0 .. edges_per_step) : e[1] # e[2] }
     /\ Cardinality(E) = (edges_per_step + 1) * edges_per_step
     /\ edge_weights => \A e \in E : G_adj[e] = Num(One)

\* a weighted seed clique over three nodes
C13_Witness ==
  /\ InPADynamic
  /\ pc = "pa_arrivals"
  /\ t = initial_nodes
  /\ edge_weights
  /\ edges_per_step = 2
  /\ Cardinality(E) = 6

\* C17: in dynamic preferential attachment with m >= 1, whenever the body of the
\* selection loop runs, total_degree is positive, node t has degree 0 in the
\* snapshot, and for every r the draw can return the scan breaks at a node, which
\* is never t.
C17_ScanHits ==
  (InPADynamic /\ pc = "pa_select" /\ edges_per_step >= 1
     /\ Cardinality(targets) < edges_per_step) =>
     /\ total_degree > 0
     /\ total_degree = SumOver(degrees, DOMAIN degrees)
     /\ degrees[t] = 0
     /\ \A n \in DOMAIN degrees : n # t => degrees[n] > 0
     /\ \A r \in 0 .. total_degree :
          /\ ScanBreak(degrees, r) # {}
          /\ t \notin ScanBreak(degrees, r)

\* the selection loop is about to run its body for an arriving node
C17_Witness ==
  /\ InPADynamic
  /\ pc = "pa_select"
  /\ edges_per_step >= 1
  /\ Cardinality(targets) < edges_per_step
  /\ t \in DOMAIN degrees


\* C15: a finished static preferential attachment graph is symmetric, (u, v) is an
\* edge iff (v, u) is one, and has exactly twice as many directed edges as the
\* undirected base graph has edges.
C15_Symmetric ==
  (IsPA /\ ~dynamic /\ Finished) =>
     /\ \A u \in G_nodes, v \in G_nodes : (<< u, v >> \in E) <=> (<< v, u >> \in E)
     /\ Cardinality(E) = 2 * Cardinality(BA_graph)
     /\ \A e \in BA_graph : << e[1], e[2] >> \in E /\ << e[2], e[1] >> \in E

\* a finished static preferential attachment graph over three nodes
C15_Witness ==
  /\ IsPA
  /\ ~dynamic
  /\ pc = "done"
  /\ Cardinality(BA_graph) = 2
  /\ Cardinality(E) = 4


\* C16: in dynamic random and homophily generation with edge_weights false, an
\* iteration that successfully selects a pair that already is an edge leaves the
\* node set, the edge set, the edge attributes and edges_added unchanged.
C16_Step ==
  (pc \in {"random_dynamic", "homophily_dynamic"} /\ ~edge_weights
     /\ i' = i + 1 /\ last'.kind = "reselect") =>
     /\ last'.es \subseteq E
     /\ G_nodes' = G_nodes
     /\ G_adj' = G_adj
     /\ edges_added' = edges_added

C16_DuplicateNoOp == [][C16_Step]_vars

\* an unweighted dynamic homophily iteration has just re-selected an existing edge
C16_Witness ==
  /\ strategy = "homophily"
  /\ dynamic
  /\ ~edge_weights
  /\ last.kind = "reselect"
  /\ last.es \subseteq E
  /\ E # {}

\* successful selections node n has had the chance to make: one per completed
\* step, and one more once the current step's node loop has passed n
Selections(n) == steps + (IF pc \in {"random_dynamic", "homophily_dynamic"} /\ n < i THEN 1 ELSE 0)

\* C18: in dynamic random and homophily generation, after k completed steps every
\* node has at most k outgoing edges, and in weighted mode the weights of a node's
\* outgoing edges sum to at most k (inside a step, one more for the nodes the
\* node loop has already passed).
C18_OutDegree ==
  InDynamicPass =>
     \A n \in G_nodes :
        /\ Cardinality(out_edges(n)) <= Selections(n)
        /\ edge_weights =>
             SumOver([e \in E |-> G_adj[e].val], out_edges(n)) <= One * Selections(n)

\* after two completed weighted steps a node's outgoing weights sum to 2
C18_Witness ==
  /\ InDynamicPass
  /\ edge_weights
  /\ steps = 2
  /\ i = 0
  /\ \E n \in G_nodes : SumOver([e \in E |-> G_adj[e].val], out_edges(n)) = 2 * One


\* ---- preferential attachment alone, with fair draws -------------------------------------
InitPA == Init /\ IsPA

NextPA ==
  \/ main_dispatch
  \/ generate_preferential_attachment_graph
  \/ main_save

\* every node the draw can return is returned again and again while the selection
\* loop keeps drawing
FairDraws == \A n \in 0 .. (MaxPAAgents + MaxM) : WF_vars(pa_draw_node(n))

SpecPA == InitPA /\ [][NextPA]_vars /\ FairDraws

====
